---- MODULE Spec2Model ----
(***************************************************************************)
(* Model of progress_interface/base.py: the progress meter classes, the    *)
(* ProgressConfig / progress_config / get_progress resolution layer, the   *)
(* REGISTRY with register(), and ProgressIterator.                         *)
(*                                                                         *)
(* Python exceptions are modelled as the "result" of a call: "ok" when the *)
(* call returns, otherwise the name of the exception class it raises.      *)
(***************************************************************************)
EXTENDS Integers, FiniteSets, Sequences, TLC

VARIABLES
    meter,       \* the progress meter instance under observation
    last,        \* the last call made: [op, arg, result, value, pre]
    args,        \* the arguments the objects under observation were built with
    itr,         \* ProgressIterator fields: [pos, len, first]
    scope,       \* position of the caller w.r.t. the with-block of the iterator
    exhausted,   \* the wrapper has raised StopIteration to its caller
    consumed,    \* number of elements the wrapper has returned to its caller
    calls,       \* number of __next__ calls made so far
    closeCalls,  \* number of meter.close() invocations made by the iterator
    REGISTRY,    \* base.REGISTRY: key -> ProgressConfig, or NotRegistered
    tqdm,        \* whether "from tqdm import tqdm" succeeds in this process
    warnings,    \* number of warnings emitted through warn()
    heap         \* ProgressConfig objects and the dict objects their kw refer to

vars == <<meter, last, args, itr, scope, exhausted, consumed, calls, closeCalls,
          REGISTRY, tqdm, warnings, heap>>

iterVars == <<itr, scope, exhausted, consumed, calls, closeCalls>>
regVars == <<REGISTRY, tqdm, warnings>>

-----------------------------------------------------------------------------
(* Bounds of the model *)

MaxTotal == 3
MaxDelta == 2
MaxLen == 3
MaxWarnings == 1
MaxConfigs == 3

Totals == 0..MaxTotal
Initials == (0 - 1)..(MaxTotal + 1)
Positions == (0 - 1)..(MaxTotal + 1)
Deltas == (0 - MaxDelta)..MaxDelta

-----------------------------------------------------------------------------
(* Keyword-argument dictionaries *)

EmptyKw == [k \in {} |-> 0]

\* dict(a); .update(b): the keys of b win
DictUpdate(a, b) ==
    [k \in (DOMAIN a) \cup (DOMAIN b) |-> IF k \in DOMAIN b THEN b[k] ELSE a[k]]

Foo1 == [k \in {"foo"} |-> 1]
Foo2Bar2 == [k \in {"foo", "bar"} |-> 2]
Kws == {EmptyKw, Foo1, Foo2Bar2}

-----------------------------------------------------------------------------
(* NullProgressMeter *)

NullProgressMeter_create(total, initial, kw) == [cls |-> "Null"]

NullProgressMeter_moveto_Validating(m, n) ==
    [meter |-> m, result |-> IF n < 0 THEN "ValueError" ELSE "ok"]

NullProgressMeter_moveto(m, n) == [meter |-> m, result |-> "ok"]

NullProgressMeter_increment(m, delta) == [meter |-> m, result |-> "ok"]

NullProgressMeter_close(m) == [meter |-> m, result |-> "ok"]

-----------------------------------------------------------------------------
(* TestProgressMeter *)

TestProgressMeter_init(total, initial, allow_decrement, kw) ==
    [cls |-> "Test", n |-> initial, total |-> total,
     allow_decrement |-> allow_decrement, kw |-> kw, closed |-> FALSE]

\* create(cls, total, initial=0, **kw): allow_decrement is taken out of kw by
\* __init__ when present, and defaults to True.
TestProgressMeter_create(total, initial, kw) ==
    TestProgressMeter_init(
        total, initial,
        IF "allow_decrement" \in DOMAIN kw THEN kw["allow_decrement"] ELSE TRUE,
        [k \in (DOMAIN kw) \ {"allow_decrement"} |-> kw[k]])

TestProgressMeter_moveto_NoUpperBound(m, n) ==
    IF m.closed THEN [meter |-> m, result |-> "RuntimeError"]
    ELSE IF n < 0 THEN [meter |-> m, result |-> "ValueError"]
    ELSE IF ~m.allow_decrement /\ n < m.n THEN [meter |-> m, result |-> "ValueError"]
    ELSE [meter |-> [m EXCEPT !.n = n], result |-> "ok"]

TestProgressMeter_moveto_RangeFirst(m, n) ==
    IF n < 0 THEN [meter |-> m, result |-> "ValueError"]
    ELSE IF n > m.total THEN [meter |-> m, result |-> "ValueError"]
    ELSE IF m.closed THEN [meter |-> m, result |-> "RuntimeError"]
    ELSE IF ~m.allow_decrement /\ n < m.n THEN [meter |-> m, result |-> "ValueError"]
    ELSE [meter |-> [m EXCEPT !.n = n], result |-> "ok"]

TestProgressMeter_moveto_NoDecrementCheck(m, n) ==
    IF m.closed THEN [meter |-> m, result |-> "RuntimeError"]
    ELSE IF n < 0 THEN [meter |-> m, result |-> "ValueError"]
    ELSE IF n > m.total THEN [meter |-> m, result |-> "ValueError"]
    ELSE [meter |-> [m EXCEPT !.n = n], result |-> "ok"]

TestProgressMeter_moveto(m, n) ==
    IF m.closed THEN [meter |-> m, result |-> "RuntimeError"]
    ELSE IF n < 0 THEN [meter |-> m, result |-> "ValueError"]
    ELSE IF n > m.total THEN [meter |-> m, result |-> "ValueError"]
    ELSE IF ~m.allow_decrement /\ n < m.n THEN [meter |-> m, result |-> "ValueError"]
    ELSE [meter |-> [m EXCEPT !.n = n], result |-> "ok"]

TestProgressMeter_increment(m, delta) == TestProgressMeter_moveto(m, m.n + delta)

TestProgressMeter_close(m) == [meter |-> [m EXCEPT !.closed = TRUE], result |-> "ok"]

-----------------------------------------------------------------------------
(* Dispatch on the class of the instance *)

moveto(m, n) ==
    IF m.cls = "Test" THEN TestProgressMeter_moveto(m, n)
    ELSE NullProgressMeter_moveto(m, n)

increment(m, delta) ==
    IF m.cls = "Test" THEN TestProgressMeter_increment(m, delta)
    ELSE NullProgressMeter_increment(m, delta)

close(m) ==
    IF m.cls = "Test" THEN TestProgressMeter_close(m)
    ELSE NullProgressMeter_close(m)

NoCall ==
    [op |-> "none", arg |-> 0, result |-> "ok", value |-> 0, pre |-> [cls |-> "None"]]

-----------------------------------------------------------------------------
(* Callables and ProgressConfig *)

\* A plain callable (a create classmethod or a factory function) is the record
\* [fn |-> name]; a ProgressConfig instance is the record [callable, kw].
Create(cls) == [fn |-> cls]

\* The factory function capture_progress() builds around
\* TestProgressMeter.config(): it forwards to TestProgressMeter.create.
FactoryFunc == [fn |-> "factory"]

ProgressConfig(callable, kw) == [callable |-> callable, kw |-> kw]

IsProgressConfig(x) == "callable" \in DOMAIN x

\* AbstractProgressMeter.config(cls, **kw)
config(cls, kw) == ProgressConfig(Create(cls), kw)

KwInitial(kw) == IF "initial" \in DOMAIN kw THEN kw["initial"] ELSE 0

KwRest(kw) == [k \in (DOMAIN kw) \ {"initial"} |-> kw[k]]

\* The tqdm-backed meter: its position and total are those of the tqdm bar,
\* and its closed property is the constant False.
TqdmProgressMeter_create(total, initial, kw) ==
    [cls |-> "Tqdm", n |-> initial, total |-> total, closed |-> FALSE]

\* callable(total, **kw). A ProgressConfig instance defines no __call__, so
\* calling it raises TypeError; TqdmProgressMeter.create imports tqdm.
Call(callable, total, kw, tqdmOk) ==
    IF IsProgressConfig(callable) THEN [result |-> "TypeError", meter |-> [cls |-> "None"]]
    ELSE IF callable.fn = "Null"
        THEN [result |-> "ok",
              meter |-> NullProgressMeter_create(total, KwInitial(kw), KwRest(kw))]
    ELSE IF callable.fn = "Tqdm"
        THEN IF tqdmOk
             THEN [result |-> "ok",
                   meter |-> TqdmProgressMeter_create(total, KwInitial(kw), KwRest(kw))]
             ELSE [result |-> "ImportError", meter |-> [cls |-> "None"]]
    ELSE [result |-> "ok",
          meter |-> TestProgressMeter_create(total, KwInitial(kw), KwRest(kw))]

\* ProgressConfig.create(self, total, **kw)
ProgressConfig_create(self, total, kw, tqdmOk) ==
    Call(self.callable, total, DictUpdate(self.kw, kw), tqdmOk)

\* ProgressConfig.update(self, kw)
ProgressConfig_update(self, kw) == ProgressConfig(self.callable, DictUpdate(self.kw, kw))

default_config_Silent(tqdmOk) ==
    IF tqdmOk THEN [config |-> config("Tqdm", EmptyKw), warned |-> 0]
    ELSE [config |-> config("Null", EmptyKw), warned |-> 0]

\* default_config(): [config, warned]. tqdmOk says that the two imports of the
\* try block succeed; otherwise ImportError is caught, one warning is emitted
\* and the NullProgressMeter configuration is returned.
default_config(tqdmOk) ==
    IF tqdmOk THEN [config |-> config("Tqdm", EmptyKw), warned |-> 0]
    ELSE [config |-> config("Null", EmptyKw), warned |-> 1]

-----------------------------------------------------------------------------
(* Progress arguments: the shapes progress_config() dispatches on *)

ArgConfig(c) == [tag |-> "config", config |-> c]
ArgNone == [tag |-> "None"]
ArgFalse == [tag |-> "False"]
ArgTrue == [tag |-> "True"]
ArgType(cls) == [tag |-> "type", cls |-> cls]
ArgStr(key) == [tag |-> "str", key |-> key]
ArgCallable(f) == [tag |-> "callable", callable |-> f]
ArgInt == [tag |-> "int"]

NoConfig == [none |-> TRUE]

\* progress_config(arg, **kw) against the registry reg: [result, warned, config]
progress_config(arg, kw, reg, tqdmOk) ==
    IF arg.tag = "config"
        THEN [result |-> "ok", warned |-> 0,
              config |-> IF kw # EmptyKw THEN ProgressConfig_update(arg.config, kw)
                         ELSE arg.config]
    ELSE IF arg.tag \in {"None", "False"}
        THEN [result |-> "ok", warned |-> 0, config |-> config("Null", kw)]
    ELSE IF arg.tag = "True"
        THEN [result |-> "ok", warned |-> default_config(tqdmOk).warned,
              config |-> default_config(tqdmOk).config]
    ELSE IF arg.tag = "type"
        THEN [result |-> "ok", warned |-> 0,
              config |-> ProgressConfig(Create(arg.cls), kw)]
    ELSE IF arg.tag = "str"
        THEN IF arg.key \in DOMAIN reg
             THEN [result |-> "ok", warned |-> 0,
                   config |-> ProgressConfig(reg[arg.key], kw)]
             ELSE [result |-> "KeyError", warned |-> 0, config |-> NoConfig]
    ELSE IF arg.tag = "callable"
        THEN [result |-> "ok", warned |-> 0, config |-> ProgressConfig(arg.callable, kw)]
    ELSE [result |-> "TypeError", warned |-> 0, config |-> NoConfig]

\* get_progress(arg, total, initial, **kw): [result, warned, meter]
get_progress(arg, total, initial, kw, reg, tqdmOk) ==
    LET r == progress_config(arg, EmptyKw, reg, tqdmOk)
        c == ProgressConfig_create(
                 r.config, total,
                 DictUpdate([k \in {"initial"} |-> initial], kw), tqdmOk)
    IN IF r.result # "ok"
       THEN [result |-> r.result, warned |-> r.warned, meter |-> [cls |-> "None"]]
       ELSE [result |-> c.result, warned |-> r.warned, meter |-> c.meter]

register_NoConflictCheck(reg, key, arg, overwrite, tqdmOk) ==
    LET r == progress_config(arg, EmptyKw, reg, tqdmOk)
    IN [result |-> "ok", warned |-> r.warned,
        REGISTRY |-> DictUpdate(reg, [k \in {key} |-> r.config])]

\* register(key, arg, overwrite=overwrite), i.e. decorator(arg):
\* [result, warned, REGISTRY]
register(reg, key, arg, overwrite, tqdmOk) ==
    LET r == progress_config(arg, EmptyKw, reg, tqdmOk)
    IN IF ~overwrite /\ key \in DOMAIN reg
       THEN [result |-> "ValueError", warned |-> 0, REGISTRY |-> reg]
       ELSE IF r.result # "ok"
       THEN [result |-> r.result, warned |-> r.warned, REGISTRY |-> reg]
       ELSE [result |-> "ok", warned |-> r.warned,
             REGISTRY |-> DictUpdate(reg, [k \in {key} |-> r.config])]

-----------------------------------------------------------------------------
(* Specification of a single meter driven by arbitrary calls *)

AllowDecrementKw(b) == [k \in {"allow_decrement"} |-> b]

IdleIter ==
    /\ itr = [pos |-> 0, len |-> 0, first |-> TRUE]
    /\ scope = "none"
    /\ exhausted = FALSE
    /\ consumed = 0
    /\ calls = 0
    /\ closeCalls = 0

EmptyRegistry == [k \in {} |-> 0]

IdleRegistry ==
    /\ REGISTRY = EmptyRegistry
    /\ tqdm = FALSE
    /\ warnings = 0

EmptyHeap == [configs |-> <<>>, dicts |-> <<>>]

IdleHeap == heap = EmptyHeap

InitMeter ==
    /\ \E t \in Totals, i \in Initials :
          /\ args = [total |-> t, initial |-> i]
          /\ \/ \E b \in BOOLEAN :
                   meter = TestProgressMeter_create(t, i, AllowDecrementKw(b))
             \/ meter = NullProgressMeter_create(t, i, EmptyKw)
    /\ last = NoCall
    /\ IdleIter
    /\ IdleRegistry
    /\ IdleHeap

Moveto(n) ==
    /\ meter' = moveto(meter, n).meter
    /\ last' = [op |-> "moveto", arg |-> n, result |-> moveto(meter, n).result,
                value |-> 0, pre |-> meter]
    /\ UNCHANGED <<heap, args, iterVars, regVars>>

Increment(delta) ==
    /\ meter' = increment(meter, delta).meter
    /\ last' = [op |-> "increment", arg |-> delta,
                result |-> increment(meter, delta).result, value |-> 0,
                pre |-> meter]
    /\ UNCHANGED <<heap, args, iterVars, regVars>>

Close ==
    /\ meter' = close(meter).meter
    /\ last' = [op |-> "close", arg |-> 0, result |-> close(meter).result,
                value |-> 0, pre |-> meter]
    /\ UNCHANGED <<heap, args, iterVars, regVars>>

NextMeter ==
    \/ \E n \in Positions : Moveto(n)
    \/ \E delta \in Deltas : Increment(delta)
    \/ Close

SpecMeter == InitMeter /\ [][NextMeter]_vars

-----------------------------------------------------------------------------
(* Properties of the reference meter (TestProgressMeter), under SpecMeter *)

\* The last call was moveto or increment on a TestProgressMeter
LastIsMove == last.op \in {"moveto", "increment"} /\ last.pre.cls = "Test"

\* The position the last moveto/increment call asked for
LastTarget == IF last.op = "moveto" THEN last.arg ELSE last.pre.n + last.arg

\* C4: on an open reference meter with allow_decrement = True, moveto(n) with
\* 0 <= n <= total returns and sets the position to n; with n < 0 or n > total
\* it raises ValueError and leaves n, total and closed as they were; and
\* increment(delta) does what moveto(position + delta) does.
C4_MovetoRange ==
    (LastIsMove /\ ~last.pre.closed /\ last.pre.allow_decrement) =>
        IF 0 <= LastTarget /\ LastTarget <= last.pre.total
        THEN /\ last.result = "ok"
             /\ meter = [last.pre EXCEPT !.n = LastTarget]
        ELSE /\ last.result = "ValueError"
             /\ meter = last.pre

C4_Witness ==
    /\ LastIsMove /\ ~last.pre.closed /\ last.pre.allow_decrement
    /\ last.op = "increment"
    /\ 0 <= last.pre.n /\ last.pre.n <= last.pre.total
    /\ LastTarget > last.pre.total
    /\ last.result = "ValueError"
    /\ meter.n = last.pre.n

\* C5: on a closed reference meter every increment or moveto, whatever its
\* argument, raises RuntimeError (never ValueError) and changes nothing; and
\* no call makes a closed meter open again.
C5_ClosedRaisesStateError ==
    /\ (LastIsMove /\ last.pre.closed) =>
          /\ last.result = "RuntimeError"
          /\ meter = last.pre
    /\ (last.op # "none" /\ last.pre.cls = "Test" /\ last.pre.closed) => meter.closed

C5_Witness ==
    /\ LastIsMove /\ last.pre.closed
    /\ last.op = "moveto"
    /\ last.arg > last.pre.total
    /\ last.result = "RuntimeError"
    /\ meter.closed /\ meter.n = last.pre.n

\* C6 as written, first clause: with allow_decrement = False, ANY moveto or
\* increment that would give n < position raises a range error (ValueError)
\* and leaves the position unchanged.
C6_Original ==
    (LastIsMove /\ ~last.pre.allow_decrement /\ LastTarget < last.pre.n) =>
        /\ last.result = "ValueError"
        /\ meter.n = last.pre.n

\* C6 amended: with allow_decrement = False, on a meter that is not closed a
\* moveto or increment that would give n < position raises ValueError and
\* leaves the position unchanged (on a closed meter it raises RuntimeError and
\* leaves it unchanged too), so the position never decreases; moves with
\* position <= n and 0 <= n <= total on an open meter succeed, increment(0)
\* included; with allow_decrement = True, moveto(n) with 0 <= n < position and
\* n <= total on an open meter succeeds and sets the position to n.
C6_DecrementPolicy ==
    /\ (LastIsMove /\ ~last.pre.allow_decrement /\ LastTarget < last.pre.n) =>
          /\ last.result = (IF last.pre.closed THEN "RuntimeError" ELSE "ValueError")
          /\ meter.n = last.pre.n
    /\ (last.op # "none" /\ last.pre.cls = "Test" /\ ~last.pre.allow_decrement) =>
          meter.n >= last.pre.n
    /\ (LastIsMove /\ ~last.pre.allow_decrement /\ ~last.pre.closed
          /\ LastTarget >= last.pre.n /\ 0 <= LastTarget
          /\ LastTarget <= last.pre.total) =>
          /\ last.result = "ok"
          /\ meter.n = LastTarget
    /\ (LastIsMove /\ last.op = "moveto" /\ last.pre.allow_decrement
          /\ ~last.pre.closed /\ 0 <= LastTarget /\ LastTarget < last.pre.n
          /\ LastTarget <= last.pre.total) =>
          /\ last.result = "ok"
          /\ meter.n = LastTarget

C6_Witness ==
    /\ LastIsMove /\ ~last.pre.allow_decrement /\ ~last.pre.closed
    /\ last.op = "moveto"
    /\ 0 <= LastTarget /\ LastTarget < last.pre.n /\ last.pre.n <= last.pre.total
    /\ last.result = "ValueError"
    /\ meter.n = last.pre.n

\* C7: every state of a reference meter built by create(total, initial), for
\* any total and any initial, in which the meter is not closed has
\* 0 <= position <= total.
C7_BoundsInvariant ==
    (meter.cls = "Test" /\ ~meter.closed) => (0 <= meter.n /\ meter.n <= meter.total)

-----------------------------------------------------------------------------
(* ProgressIterator *)

ProgressIterator_init(len, m) == [pos |-> 0, len |-> len, first |-> TRUE]

ProgressIterator_next_AlwaysIncrement(it, m) ==
    LET adv == increment(m, 1)
    IN IF adv.result # "ok"
       THEN [itr |-> it, meter |-> adv.meter, result |-> adv.result,
             value |-> 0 - 1, closes |-> 0]
       ELSE IF it.pos < it.len
       THEN [itr |-> [it EXCEPT !.first = FALSE, !.pos = @ + 1], meter |-> adv.meter,
             result |-> "ok", value |-> it.pos, closes |-> 0]
       ELSE [itr |-> [it EXCEPT !.first = FALSE], meter |-> close(adv.meter).meter,
             result |-> IF close(adv.meter).result = "ok" THEN "StopIteration"
                        ELSE close(adv.meter).result,
             value |-> 0 - 1, closes |-> 1]

ProgressIterator_next_NoCloseAtEnd(it, m) ==
    LET adv == IF ~it.first THEN increment(m, 1) ELSE [meter |-> m, result |-> "ok"]
    IN IF adv.result # "ok"
       THEN [itr |-> it, meter |-> adv.meter, result |-> adv.result,
             value |-> 0 - 1, closes |-> 0]
       ELSE IF it.pos < it.len
       THEN [itr |-> [it EXCEPT !.first = FALSE, !.pos = @ + 1], meter |-> adv.meter,
             result |-> "ok", value |-> it.pos, closes |-> 0]
       ELSE [itr |-> [it EXCEPT !.first = FALSE], meter |-> adv.meter,
             result |-> "StopIteration", value |-> 0 - 1, closes |-> 0]

\* ProgressIterator.__next__: [itr, meter, result, value, closes]. The elements
\* of the underlying sequence are named by their index; closes counts the
\* meter.close() calls made.
ProgressIterator_next(it, m) ==
    LET adv == IF ~it.first THEN increment(m, 1) ELSE [meter |-> m, result |-> "ok"]
    IN IF adv.result # "ok"
       THEN [itr |-> it, meter |-> adv.meter, result |-> adv.result,
             value |-> 0 - 1, closes |-> 0]
       ELSE IF it.pos < it.len
       THEN [itr |-> [it EXCEPT !.first = FALSE, !.pos = @ + 1], meter |-> adv.meter,
             result |-> "ok", value |-> it.pos, closes |-> 0]
       ELSE [itr |-> [it EXCEPT !.first = FALSE], meter |-> close(adv.meter).meter,
             result |-> IF close(adv.meter).result = "ok" THEN "StopIteration"
                        ELSE close(adv.meter).result,
             value |-> 0 - 1, closes |-> 1]

ProgressIterator_exit_NoClose(m) == [meter |-> m, result |-> "ok", closes |-> 0]

\* ProgressIterator.__exit__: [meter, result, closes]
ProgressIterator_exit(m) ==
    [meter |-> close(m).meter, result |-> close(m).result, closes |-> 1]

\* iter_progress(iterable, progress, total, **kw) for an iterable of length
\* len; total = NoTotal stands for total=None.
NoTotal == 0 - 1

iter_progress(len, progress, total, initial, reg, tqdmOk) ==
    get_progress(progress, IF total = NoTotal THEN len ELSE total, initial,
                 EmptyKw, reg, tqdmOk)

-----------------------------------------------------------------------------
(* Specification of one ProgressIterator and its caller *)

MaxCalls == MaxLen + 2

InitIter ==
    /\ \E len \in 0..MaxLen, t \in Totals \cup {NoTotal}, i \in {0, 1},
          progress \in {ArgType("Test"), ArgNone} :
          /\ args = [len |-> len, total |-> IF t = NoTotal THEN len ELSE t,
                     initial |-> i]
          /\ meter = iter_progress(len, progress, t, i, EmptyRegistry, FALSE).meter
          /\ itr = ProgressIterator_init(len, meter)
    /\ last = NoCall
    /\ scope = "in"
    /\ exhausted = FALSE
    /\ consumed = 0
    /\ calls = 0
    /\ closeCalls = 0
    /\ IdleRegistry
    /\ IdleHeap

\* The caller asks the wrapper for the next element
Next ==
    /\ calls < MaxCalls
    /\ LET r == ProgressIterator_next(itr, meter)
       IN /\ itr' = r.itr
          /\ meter' = r.meter
          /\ last' = [op |-> "next", arg |-> exhausted, result |-> r.result,
                      value |-> r.value, pre |-> meter]
          /\ exhausted' = (exhausted \/ r.result = "StopIteration")
          /\ consumed' = IF r.result = "ok" THEN consumed + 1 ELSE consumed
          /\ closeCalls' = closeCalls + r.closes
    /\ calls' = calls + 1
    /\ UNCHANGED <<heap, args, scope, regVars>>

\* The caller leaves the with-block (at its end, by break, or by an exception)
Exit ==
    /\ scope = "in"
    /\ meter' = ProgressIterator_exit(meter).meter
    /\ last' = [op |-> "exit", arg |-> 0, result |-> ProgressIterator_exit(meter).result,
                value |-> 0, pre |-> meter]
    /\ scope' = "exited"
    /\ closeCalls' = closeCalls + ProgressIterator_exit(meter).closes
    /\ UNCHANGED <<heap, args, itr, exhausted, consumed, calls, regVars>>

NextIter == Next \/ Exit

SpecIter == InitIter /\ [][NextIter]_vars

-----------------------------------------------------------------------------
(* Properties of ProgressIterator, under SpecIter *)

\* A reference meter built with total = L and initial = 0
FullRun == meter.cls = "Test" /\ args.total = args.len /\ args.initial = 0

\* C1: over a sequence of length L with a reference meter of total L and
\* initial 0, before the with-block is left: while element i is being handled
\* the position is i and the meter is open; every __next__ call leaves the
\* position as it was or one higher; at exhaustion the position is L; and the
\* meter is closed exactly when the wrapper has reported exhaustion.
C1_PositionsInOrder ==
    (FullRun /\ scope = "in") =>
        /\ (last.op = "next" /\ last.result = "ok") =>
              (meter.n = last.value /\ ~meter.closed)
        /\ last.op = "next" => meter.n \in {last.pre.n, last.pre.n + 1}
        /\ ~exhausted => meter.n = (IF consumed = 0 THEN 0 ELSE consumed - 1)
        /\ exhausted => (meter.n = args.len /\ consumed = args.len)
        /\ meter.closed <=> exhausted

C1_Witness ==
    /\ FullRun /\ scope = "in"
    /\ args.len >= 2
    /\ exhausted
    /\ meter.n = args.len
    /\ meter.closed

\* The caller consumed k of the L elements, 0 < k < L, stopped, and left the
\* with-block
EarlyExit ==
    /\ FullRun /\ scope = "exited" /\ ~exhausted
    /\ 0 < consumed /\ consumed < args.len

\* C2 as written: after an early exit having consumed k elements, the meter is
\* at position k and closed.
C2_Original == EarlyExit => (meter.n = consumed /\ meter.closed)

\* C2 amended: after an early exit having consumed k elements, the meter is at
\* position k - 1 (the index of the last element handed out) and closed.
C2_EarlyExit == EarlyExit => (meter.n = consumed - 1 /\ meter.closed)

C2_Witness ==
    /\ EarlyExit
    /\ last.op = "exit"
    /\ consumed = 2
    /\ meter.n = 1
    /\ meter.closed

\* C3: whenever the wrapper has reported exhaustion or the with-block has been
\* left, the reference meter is closed, for any total (also total > L, and
\* after a ValueError raised inside the block); and leaving the block never
\* raises, also when the meter was already closed by an exhaustion.
C3_ClosedAfterEnd ==
    /\ (meter.cls = "Test" /\ (exhausted \/ scope = "exited")) => meter.closed
    /\ last.op = "exit" => last.result = "ok"

C3_Witness ==
    /\ meter.cls = "Test"
    /\ args.total > args.len
    /\ exhausted
    /\ last.op = "exit" /\ last.pre.closed /\ last.result = "ok"
    /\ scope = "exited"
    /\ meter.closed

\* The wrapper was driven the way a for loop inside a with-block drives it:
\* the block has just been left, and if exhaustion was reported it was reported
\* by the last __next__ call, every earlier call having returned an element
LoopLifetime ==
    /\ last.op = "exit"
    /\ exhausted => calls = consumed + 1

\* C14 as written: over the lifetime of a wrapper obtained from iter_progress
\* and used as a scoped resource, consumed fully or left early, the meter's
\* close() is invoked exactly once.
C14_Original == LoopLifetime => closeCalls = 1

\* C14 amended: over that lifetime close() is invoked exactly once when the
\* loop is left early, and exactly twice when the sequence is consumed fully
\* (once by __next__ on exhaustion, once more by __exit__).
C14_CloseCount == LoopLifetime => closeCalls = (IF exhausted THEN 2 ELSE 1)

C14_Witness ==
    /\ LoopLifetime
    /\ meter.cls = "Test"
    /\ exhausted
    /\ consumed = args.len /\ args.len >= 2
    /\ closeCalls = 2

\* C16: once the wrapper has reported exhaustion, every further __next__ call
\* raises StopIteration again and leaves the position and the closed flag of
\* the meter as they were, also for the reference meter.
C16_ExhaustionSticks ==
    (last.op = "next" /\ last.arg) =>
        /\ last.result = "StopIteration"
        /\ meter.cls = "Test" =>
              (meter.n = last.pre.n /\ meter.closed = last.pre.closed)

-----------------------------------------------------------------------------
(* Specification of the registry and of the resolution functions *)

Keys == {"tqdm", "dup"}

TestConfig == config("Test", Foo1)
TqdmStdConfig == config("Tqdm", Foo2Bar2)

\* What register() is given: a ProgressConfig, a meter class, a factory function
RegisterTargets == {ArgConfig(TqdmStdConfig), ArgType("Test"), ArgCallable(FactoryFunc)}

\* The totals, initial positions and extra options get_progress() is tried with
ResolveTotals == {1, MaxTotal}
ResolveInitials == {0, 1, MaxTotal + 1}
ResolveKws == {EmptyKw, Foo1}

\* The progress arguments tried: every documented shape, and an int
ProgressArgs ==
    {ArgConfig(TestConfig), ArgNone, ArgFalse, ArgTrue, ArgType("Null"),
     ArgType("Test"), ArgCallable(FactoryFunc), ArgInt}
    \cup {ArgStr(k) : k \in Keys}

NoMeter == [cls |-> "None"]
NoArgs == [none |-> TRUE]

InitResolve ==
    /\ REGISTRY = EmptyRegistry
    /\ tqdm \in BOOLEAN
    /\ warnings = 0
    /\ meter = NoMeter
    /\ last = NoCall
    /\ args = NoArgs
    /\ IdleIter
    /\ IdleHeap

Snapshot == [REGISTRY |-> REGISTRY, warnings |-> warnings]

Register(key, target, overwrite) ==
    /\ LET r == register(REGISTRY, key, target, overwrite, tqdm)
       IN /\ REGISTRY' = r.REGISTRY
          /\ warnings' = warnings + r.warned
          /\ last' = [op |-> "register",
                      arg |-> [key |-> key, target |-> target, overwrite |-> overwrite],
                      result |-> r.result, value |-> 0, pre |-> Snapshot]
    /\ meter' = NoMeter
    /\ UNCHANGED <<heap, args, tqdm, iterVars>>

ProgressConfigCall(arg, kw) ==
    /\ LET r == progress_config(arg, kw, REGISTRY, tqdm)
       IN /\ warnings + r.warned <= MaxWarnings
          /\ warnings' = warnings + r.warned
          /\ last' = [op |-> "progress_config", arg |-> [arg |-> arg, kw |-> kw],
                      result |-> r.result, value |-> r.config, pre |-> Snapshot]
    /\ meter' = NoMeter
    /\ UNCHANGED <<heap, args, REGISTRY, tqdm, iterVars>>

GetProgress(arg, total, initial, kw) ==
    /\ LET r == get_progress(arg, total, initial, kw, REGISTRY, tqdm)
       IN /\ warnings + r.warned <= MaxWarnings
          /\ warnings' = warnings + r.warned
          /\ meter' = r.meter
          /\ last' = [op |-> "get_progress",
                      arg |-> [arg |-> arg, total |-> total, initial |-> initial,
                               kw |-> kw],
                      result |-> r.result, value |-> 0, pre |-> Snapshot]
    /\ UNCHANGED <<heap, args, REGISTRY, tqdm, iterVars>>

NextResolve ==
    \/ \E key \in Keys, target \in RegisterTargets, overwrite \in BOOLEAN :
          Register(key, target, overwrite)
    \/ \E arg \in ProgressArgs, kw \in Kws : ProgressConfigCall(arg, kw)
    \/ \E arg \in ProgressArgs, total \in ResolveTotals,
          initial \in ResolveInitials, kw \in ResolveKws :
          GetProgress(arg, total, initial, kw)

SpecResolve == InitResolve /\ [][NextResolve]_vars

-----------------------------------------------------------------------------
(* Properties of register, progress_config and get_progress, under SpecResolve *)

\* The ProgressConfig a register() target stands for
TargetConfig(target) ==
    IF target.tag = "config" THEN target.config
    ELSE IF target.tag = "type"
        THEN [callable |-> [fn |-> target.cls], kw |-> EmptyKw]
    ELSE [callable |-> target.callable, kw |-> EmptyKw]

\* C8: register(key, target) with key present and overwrite = False raises
\* ValueError and leaves the registry as it was; with overwrite = True, or with
\* key absent, it returns, the entry under key is the ProgressConfig the target
\* stands for, and every other key keeps its entry.
C8_RegisterConflict ==
    last.op = "register" =>
        IF last.arg.key \in DOMAIN last.pre.REGISTRY /\ ~last.arg.overwrite
        THEN /\ last.result = "ValueError"
             /\ REGISTRY = last.pre.REGISTRY
        ELSE /\ last.result = "ok"
             /\ DOMAIN REGISTRY = DOMAIN last.pre.REGISTRY \cup {last.arg.key}
             /\ REGISTRY[last.arg.key] = TargetConfig(last.arg.target)
             /\ \A k \in DOMAIN last.pre.REGISTRY :
                   k # last.arg.key => REGISTRY[k] = last.pre.REGISTRY[k]

C8_Witness ==
    /\ last.op = "register"
    /\ last.arg.key \in DOMAIN last.pre.REGISTRY
    /\ ~last.arg.overwrite
    /\ TargetConfig(last.arg.target) # last.pre.REGISTRY[last.arg.key]
    /\ last.result = "ValueError"
    /\ REGISTRY = last.pre.REGISTRY

\* C9: for a key present in the registry, progress_config(key, **extras)
\* returns a ProgressConfig whose callable is the callable of the registered
\* ProgressConfig and whose kw are the registered kw with the extras on top.
C9_StringKeyConfig ==
    (last.op = "progress_config" /\ last.arg.arg.tag = "str"
        /\ last.arg.arg.key \in DOMAIN REGISTRY) =>
        /\ last.result = "ok"
        /\ last.value.callable = REGISTRY[last.arg.arg.key].callable
        /\ last.value.kw = DictUpdate(REGISTRY[last.arg.arg.key].kw, last.arg.kw)

\* The progress argument of the last call has one of the documented shapes
ValidShape(arg) ==
    \/ arg.tag \in {"config", "True", "False", "None", "type", "callable"}
    \/ arg.tag = "str" /\ arg.key \in DOMAIN REGISTRY

\* C10: for every valid progress argument, any total and any initial,
\* get_progress returns a meter without raising, and a position-tracking meter
\* has n = initial, total = total and closed = False.
C10_GetProgress ==
    (last.op = "get_progress" /\ ValidShape(last.arg.arg)) =>
        /\ last.result = "ok"
        /\ meter.cls \in {"Test", "Tqdm"} =>
              /\ meter.n = last.arg.initial
              /\ meter.total = last.arg.total
              /\ ~meter.closed

\* The last call resolved the progress argument True
ResolvedTrue ==
    last.op \in {"progress_config", "get_progress"} /\ last.arg.arg = ArgTrue

C12_TrueKeepsExtras ==
    (last.op = "progress_config" /\ last.arg.arg = ArgTrue) =>
        /\ last.result = "ok"
        /\ last.value.callable = Create(IF tqdm THEN "Tqdm" ELSE "Null")
        /\ last.value.kw = last.arg.kw

-----------------------------------------------------------------------------
(* ProgressConfig as objects: a ProgressConfig holds a reference kw to a dict *)
(* object of heap.dicts; born records the content that dict had when the     *)
(* ProgressConfig was constructed, for stating that it is never mutated.     *)

\* The value [callable, kw] of the ProgressConfig object i
Deref(h, i) == ProgressConfig(h.configs[i].callable, h.dicts[h.configs[i].kw])

\* ProgressConfig(callable, kw) for a freshly built dict with content kw: the
\* constructor stores the reference it is given
Obj_new(h, callable, kw) ==
    [configs |-> Append(h.configs,
                        [callable |-> callable, kw |-> Len(h.dicts) + 1, born |-> kw]),
     dicts |-> Append(h.dicts, kw)]

Obj_update_InPlace(h, i, kw) ==
    LET new == ProgressConfig_update(Deref(h, i), kw)
    IN [heap |-> [configs |-> Append(h.configs,
                                     [callable |-> new.callable,
                                      kw |-> h.configs[i].kw, born |-> new.kw]),
                  dicts |-> [h.dicts EXCEPT ![h.configs[i].kw] = new.kw]],
        ref |-> Len(h.configs) + 1]

\* ProgressConfig.update(self, kw) on object i: new_kw = dict(self.kw) is a new
\* dict object; [heap, ref]
Obj_update(h, i, kw) ==
    LET new == ProgressConfig_update(Deref(h, i), kw)
    IN [heap |-> Obj_new(h, new.callable, new.kw), ref |-> Len(h.configs) + 1]

\* ProgressConfig.create(self, total, **kw) on object i: final_kw = dict(self.kw)
\* is a temporary dict; [heap, passed, result, meter], passed being the keyword
\* arguments the callable receives
Obj_create(h, i, total, kw, tqdmOk) ==
    [heap |-> h,
     passed |-> DictUpdate(h.dicts[h.configs[i].kw], kw),
     result |-> ProgressConfig_create(Deref(h, i), total, kw, tqdmOk).result,
     meter |-> ProgressConfig_create(Deref(h, i), total, kw, tqdmOk).meter]

\* progress_config(arg, **kw) for arg the ProgressConfig object i:
\* arg.update(kw) if kw else arg
Obj_progress_config(h, i, kw) ==
    IF kw # EmptyKw THEN Obj_update(h, i, kw) ELSE [heap |-> h, ref |-> i]

-----------------------------------------------------------------------------
(* Specification of ProgressConfig objects under update, create and          *)
(* progress_config                                                            *)

InitConfig ==
    /\ \E cls \in {"Test", "Null"}, kw \in Kws :
          /\ heap = Obj_new(EmptyHeap, Create(cls), kw)
          /\ args = [cls |-> cls, kw |-> kw]
    /\ meter = NoMeter
    /\ last = NoCall
    /\ IdleIter
    /\ IdleRegistry

Update(i, kw) ==
    /\ Len(heap.configs) < MaxConfigs
    /\ heap' = Obj_update(heap, i, kw).heap
    /\ last' = [op |-> "update", arg |-> [self |-> i, kw |-> kw], result |-> "ok",
                value |-> Obj_update(heap, i, kw).ref, pre |-> heap]
    /\ meter' = NoMeter
    /\ UNCHANGED <<args, iterVars, regVars>>

CreateMeter(i, total, kw) ==
    /\ LET r == Obj_create(heap, i, total, kw, tqdm)
       IN /\ heap' = r.heap
          /\ meter' = r.meter
          /\ last' = [op |-> "create", arg |-> [self |-> i, total |-> total, kw |-> kw],
                      result |-> r.result, value |-> r.passed, pre |-> heap]
    /\ UNCHANGED <<args, iterVars, regVars>>

ResolveConfig(i, kw) ==
    /\ Len(heap.configs) < MaxConfigs
    /\ heap' = Obj_progress_config(heap, i, kw).heap
    /\ last' = [op |-> "progress_config", arg |-> [self |-> i, kw |-> kw],
                result |-> "ok", value |-> Obj_progress_config(heap, i, kw).ref,
                pre |-> heap]
    /\ meter' = NoMeter
    /\ UNCHANGED <<args, iterVars, regVars>>

NextConfig ==
    \/ \E i \in 1..Len(heap.configs), kw \in Kws : Update(i, kw)
    \/ \E i \in 1..Len(heap.configs), kw \in Kws : CreateMeter(i, MaxTotal, kw)
    \/ \E i \in 1..Len(heap.configs), kw \in Kws : ResolveConfig(i, kw)

SpecConfig == InitConfig /\ [][NextConfig]_vars

-----------------------------------------------------------------------------
(* Properties of ProgressConfig, under SpecConfig *)

\* The last call returned a ProgressConfig derived from its receiver with
\* overrides
Derived ==
    \/ last.op = "update"
    \/ last.op = "progress_config" /\ last.arg.kw # EmptyKw

\* C13: update(overrides), and progress_config given a ProgressConfig plus
\* extras, return a new ProgressConfig with the receiver's callable and the
\* receiver's kw overridden by the overrides, held in a dict of its own; no
\* update, create or progress_config call changes the kw any existing
\* ProgressConfig stores; and create passes the callable the stored kw
\* overridden by the per-call options.
C13_UpdateNeverMutates ==
    /\ \A i \in 1..Len(heap.configs) :
          /\ heap.dicts[heap.configs[i].kw] = heap.configs[i].born
          /\ \A j \in 1..Len(heap.configs) :
                i # j => heap.configs[i].kw # heap.configs[j].kw
    /\ Derived =>
          /\ last.value = Len(last.pre.configs) + 1
          /\ Len(heap.configs) = Len(last.pre.configs) + 1
          /\ \A i \in 1..Len(last.pre.configs) : Deref(heap, i) = Deref(last.pre, i)
          /\ Deref(heap, last.value).callable = Deref(last.pre, last.arg.self).callable
          /\ Deref(heap, last.value).kw =
                DictUpdate(Deref(last.pre, last.arg.self).kw, last.arg.kw)
    /\ (last.op = "progress_config" /\ last.arg.kw = EmptyKw) =>
          (last.value = last.arg.self /\ heap = last.pre)
    /\ last.op = "create" =>
          /\ heap = last.pre
          /\ last.result = "ok"
          /\ last.value = DictUpdate(heap.configs[last.arg.self].born, last.arg.kw)

C13_Witness ==
    /\ last.op = "create"
    /\ last.arg.self = 1
    /\ Len(heap.configs) = 3
    /\ heap.configs[1].born = Foo1
    /\ Deref(heap, 2).kw = Foo2Bar2
    /\ Deref(heap, 1).kw = Foo1
    /\ last.arg.kw = EmptyKw
    /\ last.value = Foo1

-----------------------------------------------------------------------------
(* Specification of a meter obtained from get_progress and driven by         *)
(* arbitrary calls                                                           *)

InitAcquired ==
    /\ \E arg \in {ArgNone, ArgFalse, ArgType("Test")}, t \in Totals,
          i \in Initials, kw \in Kws :
          LET r == get_progress(arg, t, i, kw, EmptyRegistry, FALSE)
          IN /\ args = [arg |-> arg, total |-> t, initial |-> i, kw |-> kw,
                        result |-> r.result]
             /\ meter = r.meter
    /\ last = NoCall
    /\ IdleIter
    /\ IdleRegistry
    /\ IdleHeap

SpecAcquired == InitAcquired /\ [][NextMeter]_vars

\* C15: get_progress(None, ...) and get_progress(False, ...) return a
\* NullProgressMeter for any total, initial and extra options; every
\* increment, moveto and close call on it, with any argument and in any order,
\* returns without error and leaves the meter as it was.
C15_NullMeter ==
    args.arg \in {ArgNone, ArgFalse} =>
        /\ args.result = "ok"
        /\ meter = [cls |-> "Null"]
        /\ last.op # "none" => (last.result = "ok" /\ last.pre = meter)

C15_Witness ==
    /\ args.arg = ArgFalse
    /\ args.kw = Foo1
    /\ args.initial > args.total
    /\ last.op = "moveto"
    /\ last.arg < 0
    /\ last.result = "ok"
    /\ meter.cls = "Null"

====
